---- MODULE Spec2Model ----
(***************************************************************************)
(* google_streetview/api.py: class StreetView.                             *)
(*                                                                         *)
(* A Python str is a sequence of pieces (a piece is a TLA+ string, one     *)
(* character wherever the code looks at characters).  A Python dict is the *)
(* sequence of its <<key, value>> items in insertion order.  A file is the *)
(* str it holds; the directory is a function from file names to files.     *)
(***************************************************************************)
EXTENDS Naturals, Integers, Sequences, FiniteSets, TLC

VARIABLES
  arg_params,      \* the params argument as the caller passed it to __init__
  api_key,         \* the api_key argument of __init__
  params,          \* self.params
  links,           \* self.links
  metadata_links,  \* self.metadata_links
  _metadata,       \* self._metadata
  metadata,        \* the object the attribute expression self.metadata yields
  fs,              \* the target directory: file name -> content
  last,            \* the call that ended last and how it ended
  calls            \* number of calls made so far

vars == <<arg_params, api_key, params, links, metadata_links, _metadata,
          metadata, fs, last, calls>>

----------------------------------------------------------------------------
(* Bounds *)
MaxN == 2
MaxCalls == 3

----------------------------------------------------------------------------
(* str and dict helpers *)

RECURSIVE join(_, _)
\* sep.join(strs)
join(sep, strs) ==
  IF strs = <<>> THEN <<>>
  ELSE IF Len(strs) = 1 THEN strs[1]
  ELSE strs[1] \o sep \o join(sep, Tail(strs))

RECURSIVE concat(_)
concat(strs) == IF strs = <<>> THEN <<>> ELSE strs[1] \o concat(Tail(strs))

has_key(d, k) == \E i \in 1..Len(d) : d[i][1] = k

get(d, k) == d[CHOOSE i \in 1..Len(d) : d[i][1] = k][2]

\* d[k] = v on a dict: replaces the value in place, or appends a new item
set_item(d, k, v) ==
  IF has_key(d, k)
  THEN [i \in 1..Len(d) |-> IF d[i][1] = k THEN <<k, v>> ELSE d[i]]
  ELSE Append(d, <<k, v>>)

----------------------------------------------------------------------------
(* __init__: defaults, links *)

k_size == <<"s", "i", "z", "e">>
k_key == <<"k", "e", "y">>
k_location == <<"l", "o", "c", "a", "t", "i", "o", "n">>
k_fov == <<"f", "o", "v">>

default_size == <<"6", "4", "0", "x", "6", "4", "0">>

site_api == <<"https://maps.googleapis.com/maps/api/streetview">>
site_metadata == <<"https://maps.googleapis.com/maps/api/streetview/metadata">>

defaults(key) == << <<k_size, default_size>>, <<k_key, key>> >>

\* dict(d, **p): d's items in d's order with p's values where p has the key,
\* then p's other items in p's order
dict_update_mutant(d, p) ==
  [i \in 1..Len(d) |-> d[i]]
    \o SelectSeq(p, LAMBDA kv : ~has_key(d, kv[1]))

dict_update(d, p) ==
  [i \in 1..Len(d) |-> IF has_key(p, d[i][1]) THEN <<d[i][1], get(p, d[i][1])>> ELSE d[i]]
    \o SelectSeq(p, LAMBDA kv : ~has_key(d, kv[1]))

\* urllib quote_plus on one character
quote_char(c) ==
  CASE c = " " -> <<"+">>
    [] c = "," -> <<"%", "2", "C">>
    [] c = "/" -> <<"%", "2", "F">>
    [] c = "&" -> <<"%", "2", "6">>
    [] c = "=" -> <<"%", "3", "D">>
    [] OTHER -> <<c>>

quote_plus(s) == concat([i \in 1..Len(s) |-> quote_char(s[i])])

\* urllib.parse.urlencode on a dict of str
urlencode(d) ==
  join(<<"&">>, [i \in 1..Len(d) |-> quote_plus(d[i][1]) \o <<"=">> \o quote_plus(d[i][2])])

\* for i in range(len(params)): params[i] = dict(defaults, **params[i])
merge_params(ps, key) == [i \in 1..Len(ps) |-> dict_update(defaults(key), ps[i])]

\* [site + '?' + urlencode(p) for p in params]
make_links_mutant(site, ps) ==
  [i \in 1..Len(ps) |-> site \o <<"?">> \o urlencode(ps[Len(ps) + 1 - i])]

make_links(site, ps) == [i \in 1..Len(ps) |-> site \o <<"?">> \o urlencode(ps[i])]

None == [type |-> "None", items |-> <<>>]
Coroutine == [type |-> "coroutine", items |-> <<>>]
List(xs) == [type |-> "list", items |-> xs]

----------------------------------------------------------------------------
(* int <-> str *)

DigitChars == <<"0", "1", "2", "3", "4", "5", "6", "7", "8", "9">>

Digits == {DigitChars[d] : d \in 1..10}

is_digit(c) == c \in Digits

digit_val(c) == (CHOOSE d \in 1..10 : DigitChars[d] = c) - 1

RECURSIVE int_str(_)
\* f'{n}' for n >= 0
int_str(n) ==
  IF n < 10 THEN <<DigitChars[n + 1]>>
  ELSE int_str(n \div 10) \o <<DigitChars[(n % 10) + 1]>>

RECURSIVE int_of(_)
\* int(s) for a non-empty run of digits (leading zeros allowed)
int_of(s) ==
  IF Len(s) = 1 THEN digit_val(s[1])
  ELSE 10 * int_of(SubSeq(s, 1, Len(s) - 1)) + digit_val(s[Len(s)])

at(s, p) == IF p \in 1..Len(s) THEN s[p] ELSE ""

----------------------------------------------------------------------------
(* download_links: file names and the scan of the directory *)

gsv_prefix == <<"g", "s", "v", "_">>
jpg == <<"j", "p", "g">>
dot_jpg == <<".", "j", "p", "g">>

\* f'gsv_{n}.jpg'
gsv_name(n) == gsv_prefix \o int_str(n) \o dot_jpg

\* dir_path.glob("*.jpg")
glob_jpg(names) ==
  {f \in names : Len(f) >= 4 /\ SubSeq(f, Len(f) - 3, Len(f)) = dot_jpg}

\* the lengths k of a digit run with which gsv\_(\d*).jpg matches s at p:
\* gsv_ at p, k digits, any one character, then jpg
match_lens(s, p) ==
  IF p + 7 > Len(s) \/ SubSeq(s, p, p + 3) # gsv_prefix THEN {}
  ELSE {k \in 0..(Len(s) - p - 7) :
          /\ \A j \in 1..k : is_digit(s[p + 3 + j])
          /\ SubSeq(s, p + 5 + k, p + 7 + k) = jpg}

Max(S) == CHOOSE x \in S : \A y \in S : y <= x
Min(S) == CHOOSE x \in S : \A y \in S : x <= y

\* re.findall(r"gsv\_(\d*).jpg", s): matched is FALSE for [], else group is
\* element [0], the digits of the leftmost match (\d* is greedy)
re_findall_first(s) ==
  LET starts == {p \in 1..Len(s) : match_lens(s, p) # {}} IN
    IF starts = {} THEN [matched |-> FALSE, group |-> <<>>]
    ELSE LET p == Min(starts)
             k == Max(match_lens(s, p))
         IN [matched |-> TRUE, group |-> SubSeq(s, p + 4, p + 3 + k)]

\* [int(re.findall(...)[0]) for f in dir_path.glob("*.jpg")] of line 147:
\* the exception it raises ("" for none) and the indices it yields
\* (the directories of this model never hold names that raise IndexError
\* together with names that raise ValueError, so the order of glob does not
\* matter)
scan(names) ==
  LET found == [f \in glob_jpg(names) |-> re_findall_first(f)] IN
    IF \E f \in DOMAIN found : ~found[f].matched
      THEN [exc |-> "IndexError", indices |-> {}]
    ELSE IF \E f \in DOMAIN found : found[f].group = <<>>
      THEN [exc |-> "ValueError", indices |-> {}]
    ELSE [exc |-> "", indices |-> {int_of(found[f].group) : f \in DOMAIN found}]

\* max([-1] + indices) + 1
next_index_mutant(indices) == IF indices = {} THEN 0 ELSE Max(indices)

next_index(indices) == IF indices = {} THEN 0 ELSE Max(indices) + 1

----------------------------------------------------------------------------
(* json.dump and json.load on a list of flat dicts of str *)

quote == "\""

json_str(s) == <<quote>> \o s \o <<quote>>

json_obj(d) ==
  <<"{">>
    \o join(<<", ">>, [i \in 1..Len(d) |-> json_str(d[i][1]) \o <<": ">> \o json_str(d[i][2])])
    \o <<"}">>

\* json.dumps(l)
json_dumps(l) ==
  <<"[">> \o join(<<", ">>, [i \in 1..Len(l) |-> json_obj(l[i])]) \o <<"]">>

Fail == [ok |-> FALSE, val |-> <<>>, next |-> 0]

parse_str(t, p) ==
  LET ends == {q \in (p + 1)..Len(t) : t[q] = quote} IN
    IF at(t, p) = quote /\ ends # {}
    THEN [ok |-> TRUE, val |-> SubSeq(t, p + 1, Min(ends) - 1), next |-> Min(ends) + 1]
    ELSE Fail

RECURSIVE json_parse(_, _, _, _, _, _)
\* the decoder over t from position p: state says what it expects ("obj" an
\* object, "key" a key, "val" a value, "next" what follows an object), acc
\* holds the objects read, obj the items of the object being read
json_parse(t, p, state, acc, obj, key) ==
  LET s == parse_str(t, p)
      c == at(t, p)
      c2 == at(t, s.next)
      obj2 == set_item(obj, key, s.val)
  IN
  CASE state = "obj" ->
         IF c # "{" THEN Fail
         ELSE IF at(t, p + 1) = "}" THEN json_parse(t, p + 2, "next", Append(acc, <<>>), <<>>, <<>>)
         ELSE json_parse(t, p + 1, "key", acc, <<>>, <<>>)
    [] state = "key" ->
         IF ~s.ok \/ c2 # ": " THEN Fail
         ELSE json_parse(t, s.next + 1, "val", acc, obj, s.val)
    [] state = "val" ->
         IF ~s.ok THEN Fail
         ELSE IF c2 = ", " THEN json_parse(t, s.next + 1, "key", acc, obj2, <<>>)
         ELSE IF c2 = "}" THEN json_parse(t, s.next + 1, "next", Append(acc, obj2), <<>>, <<>>)
         ELSE Fail
    [] OTHER ->
         IF c = ", " THEN json_parse(t, p + 1, "obj", acc, <<>>, <<>>)
         ELSE IF c = "]" THEN [ok |-> TRUE, val |-> acc, next |-> p + 1]
         ELSE Fail

\* json.loads(t) for an array of objects: ok is FALSE for JSONDecodeError
json_loads(t) ==
  LET r == IF at(t, 1) # "[" THEN Fail
           ELSE IF at(t, 2) = "]" THEN [ok |-> TRUE, val |-> <<>>, next |-> 3]
           ELSE json_parse(t, 2, "obj", <<>>, <<>>, <<>>)
  IN IF r.ok /\ r.next = Len(t) + 1 THEN r ELSE Fail

----------------------------------------------------------------------------
(* Inputs *)

v_small == <<"6", "x", "3">>
v_place == <<"1", ",", "2">>
v_words == <<"a", " ", "b">>
v_nine == <<"9">>

key_mine == <<"K">>
key_other == <<"Z">>

\* the parameter mappings a caller passes
CallerMaps ==
  { <<>>,
    << <<k_location, v_place>> >>,
    << <<k_size, v_small>>, <<k_location, v_words>> >>,
    << <<k_location, v_place>>, <<k_key, key_other>> >>,
    << <<k_fov, v_nine>>, <<k_size, v_small>> >> }

RECURSIVE SeqsUpTo(_, _)
SeqsUpTo(S, n) ==
  IF n = 0 THEN {<<>>}
  ELSE LET shorter == SeqsUpTo(S, n - 1) IN
         shorter \cup {Append(q, x) : q \in shorter, x \in S}

ParamLists == SeqsUpTo(CallerMaps, MaxN)

\* the batches the downloader is run on
BatchLists ==
  {[i \in 1..n |-> << <<k_location, int_str(i)>> >>] : n \in 0..MaxN}

k_status == <<"status">>
k_file == <<"_file">>
status_ok == <<"OK">>
status_zero == <<"ZERO_RESULTS">>

metadata_file == <<"metadata.json">>
links_file == <<"links.txt">>
other_jpg == <<"x", ".", "j", "p", "g">>

old_image == <<"old image">>
old_links == <<"http://old", "\n">>
old_array == << << <<k_status, status_ok>>, <<k_file, gsv_name(0)>> >> >>

\* the directory dir_path as the first call finds it (<<>> is the empty
\* directory, also the one Path.mkdir of line 145 has just made)
InitDirs ==
  { <<>>,
    (gsv_name(0) :> old_image),
    (gsv_name(0) :> old_image) @@ (gsv_name(2) :> old_image) @@ (links_file :> old_links),
    (gsv_name(9) :> old_image),
    (other_jpg :> old_image),
    (gsv_name(0) :> old_image) @@ (metadata_file :> json_dumps(old_array)),
    (metadata_file :> <<"{">>) }

\* a metadata record as the metadata endpoint answers it
Records == { << <<k_status, status_ok>> >>, << <<k_status, status_zero>> >> }

\* the record of a call that has ended: the exception it raised ("" for none),
\* the directory it found, the file name it wrote for each entry (<<>> for
\* none) and the value it returned
Ended(op, exc, mode, files, wrote, ret) ==
  [op |-> op, exc |-> exc, mode |-> mode, pre |-> files, wrote |-> wrote, ret |-> ret]

----------------------------------------------------------------------------
(* Operations *)

\* await self.metadata: the body of the coroutine of the property
\* get_street_url is no name of the module's scope: the list comprehension of
\* line 127 raises NameError at its first element; over no links gather()
\* completes, and nothing assigns self._metadata
await_metadata ==
  /\ calls < MaxCalls
  /\ IF _metadata = None
     THEN IF Len(metadata_links) > 0
          THEN last' = Ended("metadata", "NameError", "", fs, <<>>, None)
          ELSE last' = Ended("metadata", "", "", fs, <<>>, _metadata)
     ELSE last' = Ended("metadata", "", "", fs, <<>>, _metadata)
  /\ calls' = calls + 1
  /\ UNCHANGED <<arg_params, api_key, params, links, metadata_links, _metadata, metadata, fs>>

\* save_links(file_path)
save_links_mutant(files, path, ls) ==
  (path :> concat([i \in 1..Len(ls) |-> ls[i] \o <<"\n">>])) @@ files

save_links_result(files, path, ls) == (path :> join(<<"\n">>, ls)) @@ files

save_links ==
  /\ calls < MaxCalls
  /\ fs' = save_links_result(fs, links_file, links)
  /\ last' = Ended("save_links", "", "", fs, <<>>, None)
  /\ calls' = calls + 1
  /\ UNCHANGED <<arg_params, api_key, params, links, metadata_links, _metadata, metadata>>

\* save_metadata(file_path, mode) with self.metadata yielding md: the files
\* afterwards and the exception raised
save_metadata_result(files, md, path, mode) ==
  IF mode = "a" /\ path \in DOMAIN files
  THEN LET current == json_loads(files[path]) IN
         IF ~current.ok THEN [fs |-> files, exc |-> "JSONDecodeError"]
         ELSE IF md.type # "list" THEN [fs |-> files, exc |-> "TypeError"]
         ELSE [fs |-> (path :> json_dumps(current.val \o md.items)) @@ files, exc |-> ""]
  ELSE IF md.type # "list" THEN [fs |-> (path :> <<>>) @@ files, exc |-> "TypeError"]
  ELSE [fs |-> (path :> json_dumps(md.items)) @@ files, exc |-> ""]

save_metadata ==
  /\ calls < MaxCalls
  /\ \E mode \in {"w", "a"} :
       LET r == save_metadata_result(fs, metadata, metadata_file, mode) IN
         /\ fs' = r.fs
         /\ last' = Ended("save_metadata", r.exc, mode, fs, <<>>, None)
  /\ calls' = calls + 1
  /\ UNCHANGED <<arg_params, api_key, params, links, metadata_links, _metadata, metadata>>

\* the bytes the image endpoint answers for url
image(url) == <<"JFIF">> \o url

\* helpers.download(url, file_path): writes the image, or raises
download(files, url, name, succeeds) ==
  IF succeeds THEN [fs |-> (name :> image(url)) @@ files, exc |-> ""]
  ELSE [fs |-> files, exc |-> "DownloadError"]

RECURSIVE download_loop(_, _, _, _, _, _)
\* the for loop of download_links from entry i on (i counts from 1, the
\* code's i is i - 1); fail_at is the entry whose download raises, 0 for none
download_loop(i, md, files, wrote, max_index, fail_at) ==
  IF i > Len(links) THEN [md |-> md, fs |-> files, wrote |-> wrote, exc |-> ""]
  ELSE IF md.type # "list"
    THEN [md |-> md, fs |-> files, wrote |-> wrote, exc |-> "TypeError"]
  ELSE IF i > Len(md.items)
    THEN [md |-> md, fs |-> files, wrote |-> wrote, exc |-> "IndexError"]
  ELSE IF ~has_key(md.items[i], k_status)
    THEN [md |-> md, fs |-> files, wrote |-> wrote, exc |-> "KeyError"]
  ELSE IF get(md.items[i], k_status) = status_ok
    THEN LET name == gsv_name(max_index + (i - 1))
             md2 == List([md.items EXCEPT ![i] = set_item(@, k_file, name)])
             d == download(files, links[i], name, fail_at # i)
         IN IF d.exc # ""
            THEN [md |-> md2, fs |-> d.fs, wrote |-> wrote, exc |-> d.exc]
            ELSE download_loop(i + 1, md2, d.fs, [wrote EXCEPT ![i] = name],
                               max_index, fail_at)
  ELSE download_loop(i + 1, md, files, wrote, max_index, fail_at)

\* download_links(dir_path, mode=mode)
download_links ==
  /\ calls < MaxCalls
  /\ LET none == [i \in 1..Len(links) |-> <<>>]
         found == scan(DOMAIN fs)
     IN
     IF found.exc # ""
     THEN /\ \E mode \in {"w", "a"} :
               last' = Ended("download_links", found.exc, mode, fs, none, None)
          /\ UNCHANGED <<metadata, fs>>
     ELSE \E fail_at \in 0..Len(links) :
            LET r == download_loop(1, metadata, fs, none, next_index(found.indices), fail_at) IN
            IF r.exc # ""
            THEN /\ \E mode \in {"w", "a"} :
                      last' = Ended("download_links", r.exc, mode, fs, r.wrote, None)
                 /\ metadata' = r.md
                 /\ fs' = r.fs
            ELSE \E mode \in {"w", "a"} :
                   LET s == save_metadata_result(r.fs, r.md, metadata_file, mode) IN
                   /\ metadata' = r.md
                   /\ fs' = s.fs
                   /\ last' = Ended("download_links", s.exc, mode, fs, r.wrote, None)
  /\ calls' = calls + 1
  /\ UNCHANGED <<arg_params, api_key, params, links, metadata_links, _metadata>>

----------------------------------------------------------------------------
(* The program: self.metadata is the property of lines 123-129, an async  *)
(* def, so the attribute expression yields a coroutine object.            *)

Init ==
  /\ arg_params \in ParamLists
  /\ api_key = key_mine
  /\ params = merge_params(arg_params, api_key)
  /\ links = make_links(site_api, params)
  /\ metadata_links = make_links(site_metadata, params)
  /\ _metadata = None
  /\ metadata = Coroutine
  /\ fs \in InitDirs
  /\ last = Ended("__init__", "", "", fs, <<>>, None)
  /\ calls = 0

Next == await_metadata \/ save_links \/ save_metadata \/ download_links

Spec == Init /\ [][Next]_vars

----------------------------------------------------------------------------
(* The downloader over given metadata records.  Under Spec the attribute   *)
(* self.metadata never yields a list, and the loop of download_links ends  *)
(* at its first entry.  SpecRecords runs the same download_links with the  *)
(* attribute bound to a list of one record per link, the input the spec    *)
(* gives the downloader (sections 4.3 and 8), on one directory shared by   *)
(* successive objects.                                                     *)

RecordLists(n) == {r \in SeqsUpTo(Records, MaxN) : Len(r) = n}

InitRecords ==
  /\ arg_params \in BatchLists
  /\ api_key = key_mine
  /\ params = merge_params(arg_params, api_key)
  /\ links = make_links(site_api, params)
  /\ metadata_links = make_links(site_metadata, params)
  /\ _metadata = None
  /\ metadata \in {List(r) : r \in RecordLists(Len(arg_params))}
  /\ fs \in InitDirs
  /\ last = Ended("__init__", "", "", fs, <<>>, None)
  /\ calls = 0

\* a further StreetView object, used on the same directory
next_object ==
  /\ calls < MaxCalls
  /\ \E ps \in BatchLists :
       /\ arg_params' = ps
       /\ params' = merge_params(ps, api_key)
       /\ links' = make_links(site_api, merge_params(ps, api_key))
       /\ metadata_links' = make_links(site_metadata, merge_params(ps, api_key))
       /\ metadata' \in {List(r) : r \in RecordLists(Len(ps))}
  /\ last' = Ended("__init__", "", "", fs, <<>>, None)
  /\ calls' = calls + 1
  /\ UNCHANGED <<api_key, _metadata, fs>>

NextRecords == next_object \/ download_links

SpecRecords == InitRecords /\ [][NextRecords]_vars

----------------------------------------------------------------------------
(* Claims *)

N == Len(links)

\* sub occurs in s as a contiguous run
occurs(sub, s) ==
  \E p \in 1..(Len(s) + 1) :
    /\ p + Len(sub) - 1 <= Len(s)
    /\ SubSeq(s, p, p + Len(sub) - 1) = sub

\* the str after site + '?' in link, or <<>> when link does not start so
query_of(site, link) ==
  IF Len(link) > Len(site) /\ SubSeq(link, 1, Len(site) + 1) = site \o <<"?">>
  THEN SubSeq(link, Len(site) + 2, Len(link))
  ELSE <<>>

\* C1: once the metadata collection has been obtained it is a list with one
\* record per metadata link, so params, links and metadata have one length.
\* Stated of an await of self.metadata that has ended: it raised nothing and
\* returned a list as long as metadata_links, links and params.
C1_MetadataIsAlignedList ==
  last.op = "metadata" =>
    /\ last.exc = ""
    /\ last.ret.type = "list"
    /\ Len(last.ret.items) = Len(metadata_links)
    /\ Len(last.ret.items) = Len(links)
    /\ Len(last.ret.items) = Len(params)

\* C2: download_links writes a file for entry i and annotates record i with
\* '_file' exactly when record i's status is the status_ok sentinel; the other
\* entries are skipped with no file, no annotation and no error.
\* Stated of a download_links call over at least one link that got past the
\* scan of the directory: testing the status raised no TypeError, and entry i
\* has a file and a '_file' item exactly when its record's status is OK.
C2_DownloadsExactlyOkEntries ==
  (last.op = "download_links" /\ N > 0 /\ scan(DOMAIN last.pre).exc = "") =>
    /\ last.exc # "TypeError"
    /\ \A i \in 1..N :
         LET ok == /\ metadata.type = "list"
                   /\ i <= Len(metadata.items)
                   /\ has_key(metadata.items[i], k_status)
                   /\ get(metadata.items[i], k_status) = status_ok
             annotated == /\ metadata.type = "list"
                          /\ i <= Len(metadata.items)
                          /\ has_key(metadata.items[i], k_file)
         IN /\ (last.wrote[i] # <<>>) <=> ok
            /\ annotated <=> ok

\* the indices n with a file gsv_<n>.jpg among names
gsv_indices(names) ==
  {n \in 0..(10 + MaxN * MaxCalls) : gsv_name(n) \in names}

C4_SaveMetadataContent ==
  last.op = "save_metadata" =>
    IF last.mode = "a" /\ metadata_file \in DOMAIN last.pre
    THEN LET A == json_loads(last.pre[metadata_file]) IN
           A.ok =>
             /\ last.exc = ""
             /\ metadata.type = "list"
             /\ fs[metadata_file] = json_dumps(A.val \o metadata.items)
    ELSE /\ last.exc = ""
         /\ metadata.type = "list"
         /\ fs[metadata_file] = json_dumps(metadata.items)

\* C5: for a parameter list of length N (N = 0 included) links and
\* metadata_links have length N, and the i-th image link and the i-th
\* metadata link carry the query string of the i-th merged mapping, each
\* after its own endpoint.
C5_LinksAligned ==
  /\ Len(params) = Len(arg_params)
  /\ Len(links) = Len(arg_params)
  /\ Len(metadata_links) = Len(arg_params)
  /\ \A i \in 1..Len(arg_params) :
       /\ links[i] = site_api \o <<"?">> \o urlencode(params[i])
       /\ metadata_links[i] = site_metadata \o <<"?">> \o urlencode(params[i])
       /\ query_of(site_api, links[i]) = query_of(site_metadata, metadata_links[i])
       /\ \A j \in 1..Len(arg_params[i]) :
            has_key(params[i], arg_params[i][j][1])

C5_Witness ==
  /\ Len(arg_params) = 2
  /\ arg_params[1] # arg_params[2]
  /\ links[1] # links[2]
  /\ last.op = "__init__"

\* every caller-supplied item is in the merged mapping, and size is there
\* once: the caller's when supplied, the default '640x640' otherwise; the
\* default size is in no link of a caller who supplied another size
merged_keeps_caller(i) ==
  /\ \A j \in 1..Len(arg_params[i]) :
       /\ has_key(params[i], arg_params[i][j][1])
       /\ get(params[i], arg_params[i][j][1]) = arg_params[i][j][2]
  /\ Cardinality({j \in 1..Len(params[i]) : params[i][j][1] = k_size}) = 1
  /\ ~has_key(arg_params[i], k_size) => get(params[i], k_size) = default_size
  /\ (has_key(arg_params[i], k_size) /\ get(arg_params[i], k_size) # default_size) =>
       /\ ~occurs(k_size \o <<"=">> \o default_size, links[i])
       /\ ~occurs(k_size \o <<"=">> \o default_size, metadata_links[i])
       /\ occurs(k_size \o <<"=">> \o get(arg_params[i], k_size), links[i])

\* C6 as stated: the merged mapping keeps every caller-supplied item, has the
\* default size only when the caller supplied no size, and has key equal to
\* the api_key given to the constructor.
C6_KeyIsApiKey ==
  \A i \in 1..Len(arg_params) :
    /\ merged_keeps_caller(i)
    /\ has_key(params[i], k_key)
    /\ get(params[i], k_key) = api_key

\* C6 amended: the merged mapping keeps every caller-supplied item, has the
\* default size only when the caller supplied no size, and has key equal to
\* the api_key given to the constructor when the caller supplied no key (a
\* caller-supplied key is kept, like any other caller-supplied item).
C6_DefaultsYieldToCaller ==
  \A i \in 1..Len(arg_params) :
    /\ merged_keeps_caller(i)
    /\ has_key(params[i], k_key)
    /\ ~has_key(arg_params[i], k_key) => get(params[i], k_key) = api_key
    /\ has_key(arg_params[i], k_key) => get(params[i], k_key) = get(arg_params[i], k_key)

C6_Witness ==
  /\ Len(arg_params) = 2
  /\ has_key(arg_params[1], k_size)
  /\ ~has_key(arg_params[1], k_key)
  /\ has_key(arg_params[2], k_key)
  /\ ~has_key(arg_params[2], k_size)
  /\ get(params[2], k_key) # api_key
  /\ last.op = "__init__"

\* C7: a failure of the metadata fetch for one URL is caught and recorded for
\* that index only; the batch is not aborted with an exception and the
\* collection keeps one entry per URL.
\* Stated of an await of self.metadata over at least one URL that has ended,
\* whatever the endpoint would answer: no exception left the batch and the
\* result has one entry per URL.
C7_BatchNotAborted ==
  (last.op = "metadata" /\ Len(metadata_links) > 0) =>
    /\ last.exc = ""
    /\ last.ret.type = "list"
    /\ Len(last.ret.items) = Len(metadata_links)

RECURSIVE is_lines(_, _)
\* c is the lines ls, one newline between two of them and none at the end
is_lines(c, ls) ==
  IF ls = <<>> THEN c = <<>>
  ELSE IF Len(ls) = 1 THEN c = ls[1]
  ELSE /\ Len(c) > Len(ls[1])
       /\ SubSeq(c, 1, Len(ls[1])) = ls[1]
       /\ c[Len(ls[1]) + 1] = "\n"
       /\ is_lines(SubSeq(c, Len(ls[1]) + 2, Len(c)), Tail(ls))

\* C8: save_links overwrites the file so that it holds exactly the image
\* links in order, a single newline between two of them, no newline after
\* the last, nothing of the previous content; no links, an empty file.
C8_LinksFile ==
  last.op = "save_links" =>
    /\ last.exc = ""
    /\ links_file \in DOMAIN fs
    /\ is_lines(fs[links_file], links)
    /\ N = 0 => fs[links_file] = <<>>
    /\ N > 0 => fs[links_file][Len(fs[links_file])] # "\n"
    /\ Cardinality({p \in 1..Len(fs[links_file]) : fs[links_file][p] = "\n"})
         = IF N = 0 THEN 0 ELSE N - 1
    /\ \A f \in DOMAIN last.pre : f # links_file => (f \in DOMAIN fs /\ fs[f] = last.pre[f])

C8_Witness ==
  /\ last.op = "save_links"
  /\ N = 2
  /\ links_file \in DOMAIN last.pre
  /\ last.pre[links_file] = old_links
  /\ fs[links_file] = links[1] \o <<"\n">> \o links[2]

====
